---- MODULE Spec2Model ----
(***************************************************************************)
(* A model of semistr's SemiStr (src/src/lib.rs): a 16-byte immutable      *)
(* string that stores up to 12 bytes inline and longer texts behind an     *)
(* Arc<Box<[u8]>>, with the stored u32 length as the only discriminant.    *)
(*                                                                         *)
(* Sizes.  The code's usize and u32 arithmetic reaches 2^32 and beyond,    *)
(* past the integers a model checker enumerates.  A size is the pair       *)
(* [w, r] standing for w * 2^32 + r, with r a small (possibly negative)    *)
(* offset: u32::MAX is [w |-> 1, r |-> -1].  Every size of the model is    *)
(* within a few dozen of a multiple of 2^32, so the pair is unique and     *)
(* order is lexicographic.                                                 *)
(*                                                                         *)
(* Byte strings.  A byte string is head \o fill^pad \o tail, where head    *)
(* and tail are explicit byte sequences and pad is a size: a 4 GiB text is *)
(* a record, not a sequence.  Slice operations are computed position by    *)
(* position on that form.  A text before encoding has the same shape over  *)
(* code points.                                                            *)
(***************************************************************************)
EXTENDS Integers, Sequences, FiniteSets, TLC

VARIABLES
    debug_assertions,   \* the build: TRUE = debug_assert! is compiled in
    vals,               \* Spec: the live SemiStr values, by slot
    heap,               \* the allocator: address -> buffer cell
    fault,              \* "none", or the memory fault a drop committed
    call                \* the last operation and what it returned

vars == <<debug_assertions, vals, heap, fault, call>>

(***************************************************************************)
(* Program constants                                                       *)
(***************************************************************************)
INLINE_CAP == 12

PREFIX_LEN == 4

(***************************************************************************)
(* Bounds of the model                                                     *)
(***************************************************************************)
\* SpecFn: run lengths are taken within Near of 12, of 2^32 - 1 and of 2^32 + 12
Near == 1

\* Spec: number of value slots
MaxVals == 2

\* Spec: number of heap addresses
MaxBufs == 2

(***************************************************************************)
(* Sizes: w * 2^32 + r                                                     *)
(***************************************************************************)
Small(n) == [w |-> 0, r |-> n]

U32_MAX == [w |-> 1, r |-> -1]

BAdd(a, n) == [w |-> a.w, r |-> a.r + n]

BLe(a, b) == a.w < b.w \/ (a.w = b.w /\ a.r <= b.r)

BLt(a, b) == ~BLe(b, a)

\* `n as u32`: n mod 2^32
AsU32(n) == IF n.r >= 0 THEN [w |-> 0, r |-> n.r] ELSE [w |-> 1, r |-> n.r]

(***************************************************************************)
(* Byte strings (&[u8], Vec<u8>, Box<[u8]>) and their slice operations     *)
(***************************************************************************)
Plain(bytes) == [head |-> bytes, fill |-> 0, pad |-> Small(0), tail |-> <<>>]

BLen(x) == BAdd(x.pad, Len(x.head) + Len(x.tail))

\* x[p - 1], for a position 1 <= p <= BLen(x)
At(x, p) ==
    IF BLe(p, Small(Len(x.head))) THEN x.head[p.r]
    ELSE IF BLe(p, BAdd(x.pad, Len(x.head))) THEN x.fill
    ELSE x.tail[p.r - x.pad.r - Len(x.head)]

\* &x[..n] for a small n <= BLen(x), as an explicit sequence
Take(x, n) == [i \in 1..n |-> At(x, Small(i))]

\* the positions of x outside its run, and the first position of the run
Edges(x) ==
    {Small(i) : i \in 1..Len(x.head)}
    \cup (IF BLt(Small(0), x.pad) THEN {Small(Len(x.head) + 1)} ELSE {})
    \cup {BAdd(x.pad, Len(x.head) + j) : j \in 1..Len(x.tail)}

\* where two strings can first differ: inside both runs, away from both run
\* starts, position p differs only if p - 1 does
Cand(x, y) ==
    {p \in Edges(x) \cup Edges(y) : BLe(p, BLen(x)) /\ BLe(p, BLen(y))}

\* <[u8] as PartialEq>::eq, <str as PartialEq>::eq
SliceEq(x, y) ==
    /\ BLen(x) = BLen(y)
    /\ \A p \in Cand(x, y) : At(x, p) = At(y, p)

\* <str as Ord>::cmp: the first differing byte decides, then the length
SliceCmp(x, y) ==
    LET D == {p \in Cand(x, y) : At(x, p) # At(y, p)} IN
    IF D # {}
    THEN LET p == CHOOSE q \in D : \A o \in D : BLe(q, o) IN
         IF At(x, p) < At(y, p) THEN "Less" ELSE "Greater"
    ELSE IF BLen(x) = BLen(y) THEN "Equal"
    ELSE IF BLt(BLen(x), BLen(y)) THEN "Less" ELSE "Greater"

\* p followed by x
Prepend(p, x) == [x EXCEPT !.head = p \o @]

(***************************************************************************)
(* UTF-8                                                                   *)
(***************************************************************************)
\* char::len_utf8
len_utf8(c) == IF c < 128 THEN 1 ELSE IF c < 2048 THEN 2 ELSE IF c < 65536 THEN 3 ELSE 4

\* char::encode_utf8
encode_utf8(c) ==
    IF c < 128 THEN <<c>>
    ELSE IF c < 2048 THEN <<192 + (c \div 64), 128 + (c % 64)>>
    ELSE IF c < 65536
    THEN <<224 + (c \div 4096), 128 + ((c \div 64) % 64), 128 + (c % 64)>>
    ELSE <<240 + (c \div 262144), 128 + ((c \div 4096) % 64),
           128 + ((c \div 64) % 64), 128 + (c % 64)>>

RECURSIVE EncodeSeq(_)
EncodeSeq(cs) == IF cs = <<>> THEN <<>> ELSE encode_utf8(Head(cs)) \o EncodeSeq(Tail(cs))

\* str::as_bytes of the text whose code points are t
Encode(t) ==
    [head |-> EncodeSeq(t.head), fill |-> t.fill, pad |-> t.pad,
     tail |-> EncodeSeq(t.tail)]

IsCont(b) == 128 <= b /\ b <= 191

\* core::str::from_utf8 on an explicit sequence: is b a valid encoding
RECURSIVE ValidUtf8(_)
ValidUtf8(b) ==
    IF b = <<>> THEN TRUE
    ELSE LET b1 == b[1] n == Len(b) IN
         IF b1 < 128 THEN ValidUtf8(Tail(b))
         ELSE IF 194 <= b1 /\ b1 <= 223
         THEN n >= 2 /\ IsCont(b[2]) /\ ValidUtf8(SubSeq(b, 3, n))
         ELSE IF 224 <= b1 /\ b1 <= 239
         THEN /\ n >= 3 /\ IsCont(b[2]) /\ IsCont(b[3])
              /\ (b1 = 224 => b[2] >= 160)
              /\ (b1 = 237 => b[2] <= 159)
              /\ ValidUtf8(SubSeq(b, 4, n))
         ELSE IF 240 <= b1 /\ b1 <= 244
         THEN /\ n >= 4 /\ IsCont(b[2]) /\ IsCont(b[3]) /\ IsCont(b[4])
              /\ (b1 = 240 => b[2] >= 144)
              /\ (b1 = 244 => b[2] <= 143)
              /\ ValidUtf8(SubSeq(b, 5, n))
         ELSE FALSE

\* core::str::from_utf8 on a byte string: an ASCII run separates head and tail
from_utf8(x) ==
    IF x.pad = Small(0) THEN ValidUtf8(x.head \o x.tail)
    ELSE x.fill < 128 /\ ValidUtf8(x.head) /\ ValidUtf8(x.tail)

(***************************************************************************)
(* The 16-byte footprint and the heap                                      *)
(*                                                                         *)
(* A footprint is [len, bytes]: the u32 at bytes 0..4 and the 12 bytes at  *)
(* 4..16.  Read as Inline, bytes is data; read as Heap, bytes[1..4] is     *)
(* prefix and bytes[5..12] is the Arc pointer, little-endian.              *)
(***************************************************************************)
NoAddr == 0

Addrs == 1..MaxBufs

FreeCell == [st |-> "free", buf |-> Plain(<<>>), rc |-> 0]

EmptyHeap == [a \in Addrs |-> FreeCell]

FreeAddrs(h) == {a \in Addrs : h[a].st = "free"}

\* what the allocator may answer: any free address, or none when exhausted
AllocChoices(h) == IF FreeAddrs(h) = {} THEN {NoAddr} ELSE FreeAddrs(h)

\* the 8 bytes of a pointer
PtrBytes(a) == <<a % 256, (a \div 256) % 256, (a \div 65536) % 256, 0, 0, 0, 0, 0>>

\* the pointer in bytes 8..16 of a footprint
PtrOf(fp) == fp.bytes[5] + 256 * fp.bytes[6] + 65536 * fp.bytes[7]

Ok(fp, h, a) == [kind |-> "ok", fp |-> fp, heap |-> h, owns |-> a]

Panic == [kind |-> "panic"]

OutOfMemory == [kind |-> "oom"]

StringTooLong(n) == [kind |-> "err", err |-> "StringTooLong", n |-> n]

InvalidUtf8String == [kind |-> "err", err |-> "InvalidUtf8String"]

\* Arc::new(boxed) at address a
ArcNew(h, a, value) == [h EXCEPT ![a] = [st |-> "live", buf |-> value, rc |-> 1]]

\* a plausible slip: the bytes are copied one short
inline_str_short(value) ==
    IF BLt(Small(INLINE_CAP), BLen(value)) THEN Panic
    ELSE LET n == BLen(value).r IN
         [kind |-> "ok",
          fp |-> [len |-> AsU32(BLen(value)),
                  bytes |-> [i \in 1..INLINE_CAP |->
                               IF i < n THEN At(value, Small(i)) ELSE 0]]]

\* inline_str: zeroed 12 bytes, the value copied to the front
inline_str(value) ==
    IF BLt(Small(INLINE_CAP), BLen(value)) THEN Panic
    ELSE LET n == BLen(value).r IN
         [kind |-> "ok",
          fp |-> [len |-> AsU32(BLen(value)),
                  bytes |-> [i \in 1..INLINE_CAP |->
                               IF i <= n THEN At(value, Small(i)) ELSE 0]]]

InlineOk(r, h) == IF r.kind = "ok" THEN Ok(r.fp, h, NoAddr) ELSE r

\* heap_str: the bytes copied to a fresh buffer behind a fresh Arc
heap_str(value, h, a) ==
    IF BLt(BLen(value), Small(PREFIX_LEN)) THEN Panic
    ELSE IF a = NoAddr THEN OutOfMemory
    ELSE Ok([len |-> AsU32(BLen(value)),
             bytes |-> Take(value, PREFIX_LEN) \o PtrBytes(a)],
            ArcNew(h, a, value), a)

\* heap_string: the Vec's own buffer behind a fresh Arc
heap_string(value, h, a, dbg) ==
    IF dbg /\ ~(BLt(Small(INLINE_CAP), BLen(value)) /\ BLe(BLen(value), U32_MAX))
    THEN Panic
    ELSE IF BLt(BLen(value), Small(PREFIX_LEN)) THEN Panic
    ELSE IF a = NoAddr THEN OutOfMemory
    ELSE Ok([len |-> AsU32(BLen(value)),
             bytes |-> Take(value, PREFIX_LEN) \o PtrBytes(a)],
            ArcNew(h, a, value), a)

(***************************************************************************)
(* Constructors                                                            *)
(***************************************************************************)
\* a plausible slip: the upper limit is exclusive
TryFromStr_excl(value, h, a) ==
    IF BLe(BLen(value), Small(INLINE_CAP)) THEN InlineOk(inline_str(value), h)
    ELSE IF BLt(BLen(value), U32_MAX) THEN heap_str(value, h, a)
    ELSE StringTooLong(BLen(value))

\* TryFrom<&str>
TryFromStr(value, h, a) ==
    IF BLe(BLen(value), Small(INLINE_CAP)) THEN InlineOk(inline_str(value), h)
    ELSE IF BLe(BLen(value), U32_MAX) THEN heap_str(value, h, a)
    ELSE StringTooLong(BLen(value))

\* TryFrom<&[u8]>
TryFromBytes(value, h, a) ==
    IF ~from_utf8(value) THEN InvalidUtf8String ELSE TryFromStr(value, h, a)

\* TryFrom<String>
TryFromString(value, h, a, dbg) ==
    IF BLe(BLen(value), Small(INLINE_CAP)) THEN InlineOk(inline_str(value), h)
    ELSE IF BLe(BLen(value), U32_MAX) THEN heap_string(value, h, a, dbg)
    ELSE StringTooLong(BLen(value))

\* SemiStr::new: try_from(s).unwrap()
New(s, h, a) == LET r == TryFromStr(s, h, a) IN IF r.kind = "err" THEN Panic ELSE r

\* SemiStr::inline
Inline(s, h) ==
    IF ~BLe(BLen(s), Small(INLINE_CAP)) THEN Panic ELSE InlineOk(inline_str(s), h)

\* Default::default
Default(h) == Ok([len |-> Small(0), bytes |-> [i \in 1..INLINE_CAP |-> 0]], h, NoAddr)

(***************************************************************************)
(* Character iterators: the code points still to come and the lower bound  *)
(* size_hint reports                                                       *)
(***************************************************************************)
CharCount(t) == BAdd(t.pad, Len(t.head) + Len(t.tail))

IterDone(it) == CharCount(it.chars) = Small(0)

\* Iterator::next: the item
IterItem(it) ==
    LET t == it.chars IN
    IF t.head # <<>> THEN t.head[1] ELSE IF t.pad # Small(0) THEN t.fill ELSE t.tail[1]

\* Iterator::next: the iterator afterwards
IterRest(it) ==
    LET t == it.chars IN
    [chars |-> IF t.head # <<>> THEN [t EXCEPT !.head = Tail(@)]
               ELSE IF t.pad # Small(0) THEN [t EXCEPT !.pad = BAdd(@, -1)]
               ELSE [t EXCEPT !.tail = Tail(@)],
     hint |-> IF it.hint = Small(0) THEN it.hint ELSE BAdd(it.hint, -1)]

\* data[at..at + Len(b)] = b
WriteAt(data, at, b) ==
    [i \in 1..INLINE_CAP |-> IF at < i /\ i <= at + Len(b) THEN b[i - at] ELSE data[i]]

\* a plausible slip: on leaving the scratch its bytes are not carried over
RECURSIVE from_char_iter_loop_drop(_, _, _, _, _, _)
from_char_iter_loop_drop(it, len, data, h, a, dbg) ==
    IF IterDone(it) THEN Ok([len |-> AsU32(Small(len)), bytes |-> data], h, NoAddr)
    ELSE LET ch == IterItem(it)
             rest == IterRest(it)
             size == len_utf8(ch) IN
         IF size + len > INLINE_CAP
         THEN heap_string(Prepend(encode_utf8(ch), Encode(rest.chars)), h, a, dbg)
         ELSE from_char_iter_loop_drop(rest, len + size,
                                       WriteAt(data, len, encode_utf8(ch)), h, a, dbg)

from_char_iter_drop(it, h, a, dbg) ==
    IF ~BLe(it.hint, U32_MAX) THEN Panic
    ELSE IF BLt(Small(INLINE_CAP), it.hint)
    THEN heap_string(Encode(it.chars), h, a, dbg)
    ELSE from_char_iter_loop_drop(it, 0, [i \in 1..INLINE_CAP |-> 0], h, a, dbg)

\* the while-let loop of from_char_iter
RECURSIVE from_char_iter_loop(_, _, _, _, _, _)
from_char_iter_loop(it, len, data, h, a, dbg) ==
    IF IterDone(it) THEN Ok([len |-> AsU32(Small(len)), bytes |-> data], h, NoAddr)
    ELSE LET ch == IterItem(it)
             rest == IterRest(it)
             size == len_utf8(ch) IN
         IF size + len > INLINE_CAP
         THEN heap_string(
                  Prepend(SubSeq(data, 1, len) \o encode_utf8(ch), Encode(rest.chars)),
                  h, a, dbg)
         ELSE from_char_iter_loop(rest, len + size,
                                  WriteAt(data, len, encode_utf8(ch)), h, a, dbg)

\* SemiStr::from_char_iter
from_char_iter(it, h, a, dbg) ==
    IF ~BLe(it.hint, U32_MAX) THEN Panic
    ELSE IF BLt(Small(INLINE_CAP), it.hint)
    THEN heap_string(Encode(it.chars), h, a, dbg)
    ELSE from_char_iter_loop(it, 0, [i \in 1..INLINE_CAP |-> 0], h, a, dbg)

(***************************************************************************)
(* Accessors, comparison, clone, drop                                      *)
(***************************************************************************)
\* SemiStr::len
len(fp) == fp.len

\* Deref::deref (and as_ref, as_str, as_bytes): the text view
Deref(fp, h) ==
    IF BLe(len(fp), Small(INLINE_CAP))
    THEN Plain(SubSeq(fp.bytes, 1, len(fp).r))
    ELSE h[PtrOf(fp)].buf

\* self.0[4..8]
Prefix(fp) == SubSeq(fp.bytes, 1, PREFIX_LEN)

\* PartialEq<str> for SemiStr
EqStr(fp, other, h) ==
    IF len(fp) # BLen(other) THEN FALSE
    ELSE IF BLe(BLen(other), Small(INLINE_CAP)) THEN SliceEq(Deref(fp, h), other)
    ELSE IF Prefix(fp) # Take(other, PREFIX_LEN) THEN FALSE
    ELSE SliceEq(Deref(fp, h), other)

\* PartialEq<SemiStr> for str
StrEq(other, fp, h) == EqStr(fp, other, h)

\* PartialEq<&str> for SemiStr
EqStrRef(fp, other, h) ==
    IF len(fp) # BLen(other) THEN FALSE
    ELSE IF BLe(BLen(other), Small(INLINE_CAP)) THEN SliceEq(Deref(fp, h), other)
    ELSE IF Prefix(fp) # Take(other, PREFIX_LEN) THEN FALSE
    ELSE SliceEq(Deref(fp, h), other)

\* PartialEq<SemiStr> for &str
StrRefEq(other, fp, h) == EqStrRef(fp, other, h)

\* PartialEq for SemiStr
Eq(fp, other, h) ==
    IF len(fp) # len(other) THEN FALSE
    ELSE IF BLe(len(other), Small(INLINE_CAP)) THEN fp.bytes = other.bytes
    ELSE IF Prefix(fp) # Prefix(other) THEN FALSE
    ELSE SliceEq(Deref(fp, h), Deref(other, h))

\* Ord::cmp
Cmp(fp, other, h) == SliceCmp(Deref(fp, h), Deref(other, h))

\* Clone::clone
Clone(fp, h, a) ==
    IF BLe(len(fp), Small(INLINE_CAP)) THEN Ok(fp, h, NoAddr)
    ELSE heap_str(Deref(fp, h), h, a)

\* Drop for Arc<Box<[u8]>>: the count goes down, the last holder frees
ArcDrop(h, a) ==
    IF h[a].rc > 1 THEN [h EXCEPT ![a].rc = @ - 1] ELSE [h EXCEPT ![a] = FreeCell]

\* Drop::drop: the heap afterwards
Drop(fp, h) ==
    IF BLe(len(fp), Small(INLINE_CAP)) THEN h ELSE ArcDrop(h, PtrOf(fp))

\* Drop::drop: the fault committed when the handle's buffer is already gone
DropFault(fp, h) ==
    IF BLe(len(fp), Small(INLINE_CAP)) THEN "none"
    ELSE IF h[PtrOf(fp)].st = "free" THEN "double_free" ELSE "none"

(***************************************************************************)
(* Inputs                                                                  *)
(***************************************************************************)
\* 'a', U+00E9, U+20AC, U+1F600: one code point of each encoded length
Alphabet == {97, 233, 8364, 128512}

\* the code point of the run: 'z'
FillChars == {122}

EdgeSeqs == {<<>>} \cup {<<c>> : c \in Alphabet}

Around(n) == {BAdd(n, d) : d \in (0 - Near)..Near}

\* run lengths: none, about INLINE_CAP, about u32::MAX, about 2^32 + INLINE_CAP
Pads ==
    {Small(0)} \cup Around(Small(INLINE_CAP)) \cup Around(U32_MAX)
    \cup Around([w |-> 1, r |-> INLINE_CAP])

\* the texts of SpecFn
Texts ==
    {[head |-> h, fill |-> f, pad |-> p, tail |-> t] :
        h \in EdgeSeqs, f \in FillChars, p \in Pads, t \in EdgeSeqs}

\* byte sequences that make any text around them ill-formed
BadSeqs ==
    {<<0, 255, 255, 255>>, <<195>>, <<128>>, <<224, 128, 128>>,
     <<237, 160, 128>>, <<244, 144, 128, 128>>}

\* the byte slices of SpecFn, each with whether it was built well-formed
ByteInputs ==
    {[bytes |-> Encode(t), valid |-> TRUE] : t \in Texts}
    \cup {[bytes |-> [Encode(t) EXCEPT !.tail = @ \o b], valid |-> FALSE] :
            t \in {u \in Texts : u.head = <<>>}, b \in BadSeqs}
    \cup {[bytes |-> Prepend(b, Encode(t)), valid |-> FALSE] :
            t \in {u \in Texts : u.tail = <<>>}, b \in BadSeqs}

\* the lower bounds an iterator over t may report
Hints(t) ==
    {h \in {Small(0), Small(INLINE_CAP), Small(INLINE_CAP + 1), CharCount(t)} :
        BLe(h, CharCount(t))}

Txt(h, p, t) == [head |-> h, fill |-> 122, pad |-> p, tail |-> t]

\* the texts of Spec: "", "a", z^12, z^11 U+00E9, z^13, z^13 a, z^(2^32),
\* z^(2^32 + 13)
LifeTexts ==
    {Txt(<<>>, Small(0), <<>>), Txt(<<97>>, Small(0), <<>>),
     Txt(<<>>, Small(INLINE_CAP), <<>>), Txt(<<>>, Small(INLINE_CAP - 1), <<233>>),
     Txt(<<>>, Small(INLINE_CAP + 1), <<>>), Txt(<<>>, Small(INLINE_CAP + 1), <<97>>),
     Txt(<<>>, [w |-> 1, r |-> 0], <<>>),
     Txt(<<>>, [w |-> 1, r |-> INLINE_CAP + 1], <<>>)}

(***************************************************************************)
(* SpecFn: one call of one constructor on one input                        *)
(***************************************************************************)
Pending == [kind |-> "pending"]

\* what the caller holds after the call: the value or the error
Returned(r) ==
    IF r.kind = "ok" THEN [kind |-> "ok", fp |-> r.fp, owns |-> r.owns] ELSE r

HeapAfter(r, h) == IF r.kind = "ok" THEN r.heap ELSE h

FnInputs ==
    {[fn |-> f, text |-> t, bytes |-> Encode(t), valid |-> TRUE,
      hint |-> Small(0), out |-> Pending] :
        f \in {"try_from_str", "try_from_string", "new", "inline"}, t \in Texts}
    \cup {[fn |-> "try_from_bytes", text |-> Txt(<<>>, Small(0), <<>>),
           bytes |-> b.bytes, valid |-> b.valid,
           hint |-> Small(0), out |-> Pending] : b \in ByteInputs}
    \cup {[fn |-> "from_iter", text |-> t, bytes |-> Encode(t), valid |-> TRUE,
           hint |-> h, out |-> Pending] :
            t \in Texts, h \in UNION {Hints(u) : u \in Texts}}
    \cup {[fn |-> "default", text |-> Txt(<<>>, Small(0), <<>>),
           bytes |-> Plain(<<>>), valid |-> TRUE, hint |-> Small(0),
           out |-> Pending]}

InitFn ==
    /\ debug_assertions \in BOOLEAN
    /\ vals = <<>>
    /\ heap = EmptyHeap
    /\ fault = "none"
    /\ call \in {c \in FnInputs : c.fn = "from_iter" => c.hint \in Hints(c.text)}

Return(r) ==
    /\ r.kind # "oom"
    /\ call' = [call EXCEPT !.out = Returned(r)]
    /\ heap' = HeapAfter(r, heap)
    /\ UNCHANGED <<debug_assertions, vals, fault>>

CallTryFromStr ==
    /\ call.out = Pending /\ call.fn = "try_from_str"
    /\ \E a \in AllocChoices(heap) : Return(TryFromStr(call.bytes, heap, a))

CallTryFromBytes ==
    /\ call.out = Pending /\ call.fn = "try_from_bytes"
    /\ \E a \in AllocChoices(heap) : Return(TryFromBytes(call.bytes, heap, a))

CallTryFromString ==
    /\ call.out = Pending /\ call.fn = "try_from_string"
    /\ \E a \in AllocChoices(heap) :
          Return(TryFromString(call.bytes, heap, a, debug_assertions))

CallNew ==
    /\ call.out = Pending /\ call.fn = "new"
    /\ \E a \in AllocChoices(heap) : Return(New(call.bytes, heap, a))

CallInline ==
    /\ call.out = Pending /\ call.fn = "inline"
    /\ Return(Inline(call.bytes, heap))

CallDefault ==
    /\ call.out = Pending /\ call.fn = "default"
    /\ Return(Default(heap))

CallFromIter ==
    /\ call.out = Pending /\ call.fn = "from_iter"
    /\ \E a \in AllocChoices(heap) :
          Return(from_char_iter([chars |-> call.text, hint |-> call.hint],
                                heap, a, debug_assertions))

NextFn ==
    \/ CallTryFromStr
    \/ CallTryFromBytes
    \/ CallTryFromString
    \/ CallNew
    \/ CallInline
    \/ CallDefault
    \/ CallFromIter

SpecFn == InitFn /\ [][NextFn]_vars

(***************************************************************************)
(* Spec: values are constructed into slots, cloned, compared and dropped   *)
(*                                                                         *)
(* A slot holds the footprint, and two facts the footprint cannot tell:    *)
(* the text the value was built from, and the Arc the value owns (the      *)
(* buffer its constructor allocated), NoAddr when it owns none.  A call    *)
(* that panics or returns an error leaves no value and the state as it     *)
(* was.                                                                    *)
(***************************************************************************)
Slots == 1..MaxVals

NoVal == [kind |-> "none"]

Live(i) == vals[i] # NoVal

Value(r, t) == [kind |-> "val", fp |-> r.fp, src |-> t, owns |-> r.owns]

Init ==
    /\ debug_assertions \in BOOLEAN
    /\ vals = [i \in Slots |-> NoVal]
    /\ heap = EmptyHeap
    /\ fault = "none"
    /\ call = [fn |-> "init"]

\* the outcome r of constructing from text t into slot i by constructor f
Built(f, i, t, r) ==
    /\ r.kind # "oom"
    /\ vals' = IF r.kind = "ok" THEN [vals EXCEPT ![i] = Value(r, t)] ELSE vals
    /\ heap' = HeapAfter(r, heap)
    /\ call' = [fn |-> f, slot |-> i, text |-> t, kind |-> r.kind]
    /\ UNCHANGED <<debug_assertions, fault>>

DoNew(i, t) ==
    /\ ~Live(i)
    /\ \E a \in AllocChoices(heap) : Built("new", i, t, New(Encode(t), heap, a))

DoInline(i, t) ==
    /\ ~Live(i)
    /\ Built("inline", i, t, Inline(Encode(t), heap))

DoTryFromStr(i, t) ==
    /\ ~Live(i)
    /\ \E a \in AllocChoices(heap) :
          Built("try_from_str", i, t, TryFromStr(Encode(t), heap, a))

DoTryFromBytes(i, t) ==
    /\ ~Live(i)
    /\ \E a \in AllocChoices(heap) :
          Built("try_from_bytes", i, t, TryFromBytes(Encode(t), heap, a))

DoTryFromString(i, t) ==
    /\ ~Live(i)
    /\ \E a \in AllocChoices(heap) :
          Built("try_from_string", i, t,
                TryFromString(Encode(t), heap, a, debug_assertions))

DoDefault(i) ==
    /\ ~Live(i)
    /\ Built("default", i, Txt(<<>>, Small(0), <<>>), Default(heap))

DoFromIter(i, t, h) ==
    /\ ~Live(i)
    /\ \E a \in AllocChoices(heap) :
          Built("from_iter", i, t,
                from_char_iter([chars |-> t, hint |-> h], heap, a, debug_assertions))

DoClone(i, j) ==
    /\ Live(i) /\ ~Live(j)
    /\ \E a \in AllocChoices(heap) :
          LET r == Clone(vals[i].fp, heap, a) IN
          /\ r.kind # "oom"
          /\ vals' = IF r.kind = "ok" THEN [vals EXCEPT ![j] = Value(r, vals[i].src)]
                     ELSE vals
          /\ heap' = HeapAfter(r, heap)
          /\ call' = [fn |-> "clone", slot |-> j, from |-> i, kind |-> r.kind]
    /\ UNCHANGED <<debug_assertions, fault>>

DoDrop(i) ==
    /\ Live(i)
    /\ vals' = [vals EXCEPT ![i] = NoVal]
    /\ heap' = Drop(vals[i].fp, heap)
    /\ fault' = IF DropFault(vals[i].fp, heap) # "none"
                THEN DropFault(vals[i].fp, heap) ELSE fault
    /\ call' = [fn |-> "drop", slot |-> i, owned |-> vals[i].owns]
    /\ UNCHANGED debug_assertions

\* v == t, t == v, v == &t, &t == v
DoEqStr(i, t) ==
    /\ Live(i)
    /\ call' = [fn |-> "eq_str", slot |-> i, text |-> t,
                eq |-> <<EqStr(vals[i].fp, Encode(t), heap),
                         StrEq(Encode(t), vals[i].fp, heap),
                         EqStrRef(vals[i].fp, Encode(t), heap),
                         StrRefEq(Encode(t), vals[i].fp, heap)>>]
    /\ UNCHANGED <<debug_assertions, vals, heap, fault>>

Next ==
    \/ \E i \in Slots, t \in LifeTexts : DoNew(i, t)
    \/ \E i \in Slots, t \in LifeTexts : DoInline(i, t)
    \/ \E i \in Slots, t \in LifeTexts : DoTryFromStr(i, t)
    \/ \E i \in Slots, t \in LifeTexts : DoTryFromBytes(i, t)
    \/ \E i \in Slots, t \in LifeTexts : DoTryFromString(i, t)
    \/ \E i \in Slots : DoDefault(i)
    \/ \E i \in Slots, t \in LifeTexts : \E h \in Hints(t) : DoFromIter(i, t, h)
    \/ \E i \in Slots, j \in Slots : DoClone(i, j)
    \/ \E i \in Slots : DoDrop(i)
    \/ \E i \in Slots, t \in LifeTexts : DoEqStr(i, t)

Spec == Init /\ [][Next]_vars

(***************************************************************************)
(* Properties of the constructors (SpecFn)                                 *)
(***************************************************************************)
Done == call.out # Pending

\* C1: a valid text of at most 2^32 - 1 bytes, given to the text-slice, the
\* byte-slice or the owned-buffer constructor, yields a value whose text view
\* is the text byte for byte and whose length() is its byte length, inline
\* (<= 12 bytes) or on the heap (> 12 bytes).
C1_RepresentationCorrect ==
    (/\ Done
     /\ call.fn \in {"try_from_str", "try_from_bytes", "try_from_string"}
     /\ call.valid
     /\ BLe(BLen(call.bytes), U32_MAX))
    => /\ call.out.kind = "ok"
       /\ SliceEq(Deref(call.out.fp, heap), call.bytes)
       /\ len(call.out.fp) = BLen(call.bytes)
       /\ Take(Deref(call.out.fp, heap), IF BLe(BLen(call.bytes), Small(INLINE_CAP))
                                         THEN BLen(call.bytes).r ELSE INLINE_CAP + 1)
          = Take(call.bytes, IF BLe(BLen(call.bytes), Small(INLINE_CAP))
                             THEN BLen(call.bytes).r ELSE INLINE_CAP + 1)

\* C1 witness: the byte-slice constructor has returned a 13-byte heap value
\* that ends in a two-byte code point.
C1_Witness ==
    /\ call.fn = "try_from_bytes" /\ Done /\ call.out.kind = "ok"
    /\ len(call.out.fp) = Small(INLINE_CAP + 1)
    /\ call.out.owns # NoAddr
    /\ call.bytes.tail = <<195, 169>>

\* C7: the builder, run over the code points of a text the text-slice
\* constructor accepts, with any lower-bound hint up to the true count, yields
\* a value equal to the text-slice constructor's, with the same length and
\* text view.
C7_BuilderMatchesTextSlice ==
    (/\ Done /\ call.fn = "from_iter"
     /\ BLe(BLen(call.bytes), U32_MAX))
    => /\ call.out.kind = "ok"
       /\ \A a \in AllocChoices(heap) :
             LET r == TryFromStr(call.bytes, heap, a) IN
             /\ r.kind = "ok"
             /\ Eq(call.out.fp, r.fp, r.heap)
             /\ Eq(r.fp, call.out.fp, r.heap)
             /\ len(call.out.fp) = len(r.fp)
             /\ SliceEq(Deref(call.out.fp, r.heap), Deref(r.fp, r.heap))
             /\ (r.owns = NoAddr) = (call.out.owns = NoAddr)
       /\ SliceEq(Deref(call.out.fp, heap), call.bytes)

\* C7 witness: with 11 bytes in the scratch and a hint of 0, the builder has
\* met a two-byte code point, which would straddle the 12-byte boundary, and
\* has moved to the heap.
C7_Witness ==
    /\ call.fn = "from_iter" /\ Done /\ call.out.kind = "ok"
    /\ call.hint = Small(0)
    /\ call.text.head = <<>> /\ call.text.pad = Small(INLINE_CAP - 1)
    /\ call.text.tail = <<233>>
    /\ call.out.owns # NoAddr

\* C9: the three try_from constructors fail in two ways only and leave no
\* value behind: InvalidUtf8String for a byte slice that is not valid UTF-8,
\* StringTooLong(n) exactly for a (valid) text of n > 2^32 - 1 bytes; every
\* other input yields a value.
C9_FailureKinds ==
    (Done /\ call.fn \in {"try_from_str", "try_from_bytes", "try_from_string"})
    => /\ ~call.valid => call.out = InvalidUtf8String
       /\ (call.valid /\ BLt(U32_MAX, BLen(call.bytes)))
             => call.out = StringTooLong(BLen(call.bytes))
       /\ (call.valid /\ BLe(BLen(call.bytes), U32_MAX)) => call.out.kind = "ok"
       /\ call.out.kind \in {"ok", "err"}
       /\ call.out.kind = "err" => heap = EmptyHeap

\* C9 witness: the owned-buffer constructor has refused a text of 2^32 bytes.
C9_Witness ==
    /\ call.fn = "try_from_string" /\ Done
    /\ call.out = StringTooLong([w |-> 1, r |-> 0])

\* C10: a heap value made by the builder stores a length that is the length
\* of its buffer and at most 2^32 - 1, also when the sequence's lower-bound
\* hint is within 2^32 - 1 and its encoded length is not.
C10_BuilderLenIsBufferLen ==
    (Done /\ call.fn = "from_iter" /\ call.out.kind = "ok" /\ call.out.owns # NoAddr)
    => /\ len(call.out.fp) = BLen(heap[call.out.owns].buf)
       /\ BLe(BLen(heap[call.out.owns].buf), U32_MAX)

(***************************************************************************)
(* Properties of live values (Spec)                                        *)
(***************************************************************************)
View(i) == Deref(vals[i].fp, heap)

LiveSlots == {i \in Slots : Live(i)}

\* C2: for values made by any constructor or by clone, == is true exactly
\* when the text views are equal byte for byte; so it is reflexive, symmetric
\* and transitive.
C2_EqIffSameText ==
    /\ \A i \in LiveSlots, j \in LiveSlots :
          /\ Eq(vals[i].fp, vals[j].fp, heap) = SliceEq(View(i), View(j))
          /\ Eq(vals[i].fp, vals[j].fp, heap) = Eq(vals[j].fp, vals[i].fp, heap)
    /\ \A i \in LiveSlots : Eq(vals[i].fp, vals[i].fp, heap)
    /\ \A i \in LiveSlots, j \in LiveSlots, k \in LiveSlots :
          (Eq(vals[i].fp, vals[j].fp, heap) /\ Eq(vals[j].fp, vals[k].fp, heap))
             => Eq(vals[i].fp, vals[k].fp, heap)

Flip(o) == IF o = "Less" THEN "Greater" ELSE IF o = "Greater" THEN "Less" ELSE o

\* C3: cmp is the byte-lexicographic order of the encoded texts, a total
\* order, and Equal exactly when == holds.
C3_OrderIsByteLex ==
    /\ \A i \in LiveSlots, j \in LiveSlots :
          /\ Cmp(vals[i].fp, vals[j].fp, heap)
                = SliceCmp(Encode(vals[i].src), Encode(vals[j].src))
          /\ Cmp(vals[i].fp, vals[j].fp, heap) = Flip(Cmp(vals[j].fp, vals[i].fp, heap))
          /\ (Cmp(vals[i].fp, vals[j].fp, heap) = "Equal")
                = Eq(vals[i].fp, vals[j].fp, heap)
    /\ \A i \in LiveSlots, j \in LiveSlots, k \in LiveSlots :
          (/\ Cmp(vals[i].fp, vals[j].fp, heap) \in {"Less", "Equal"}
           /\ Cmp(vals[j].fp, vals[k].fp, heap) \in {"Less", "Equal"})
             => Cmp(vals[i].fp, vals[k].fp, heap) \in {"Less", "Equal"}

Allocated(h) == {a \in Addrs : h[a].st = "live"}

\* C4: cloning a heap value copies the footprint and raises the shared count:
\* the clone refers to the original's buffer and no buffer is allocated.
C4_CloneShares ==
    [][\A i \in Slots, j \in Slots :
          (DoClone(i, j) /\ BLt(Small(INLINE_CAP), len(vals[i].fp)))
             => /\ vals'[j].fp = vals[i].fp
                /\ Allocated(heap') = Allocated(heap)
                /\ heap'[PtrOf(vals[i].fp)].rc = heap[PtrOf(vals[i].fp)].rc + 1]_vars

Holders(a) == {i \in LiveSlots : vals[i].owns = a}

\* C5: whatever is constructed, cloned and dropped, a buffer is freed exactly
\* once, by the drop of its last holder: a live value's buffer is allocated
\* and holds its text, nothing is freed twice, no buffer outlives its
\* holders, and dropping an inline value touches no buffer.
C5_FreedOnceAtLastDrop ==
    /\ \A i \in LiveSlots :
          vals[i].owns # NoAddr
             => /\ heap[vals[i].owns].st = "live"
                /\ SliceEq(heap[vals[i].owns].buf, Encode(vals[i].src))
    /\ fault = "none"
    /\ \A a \in Allocated(heap) : Holders(a) # {}
    /\ \A a \in Allocated(heap) : heap[a].rc = Cardinality(Holders(a))

\* C6: a value is inline (owns no buffer) exactly when its stored length is
\* <= 12 and heap (owns an allocated buffer) exactly when it is > 12; 12 bytes
\* are inline, 13 are heap, and the inline-only constructor aborts on more
\* than 12 bytes.
C6_ShapeIffLength ==
    /\ \A i \in LiveSlots :
          /\ (vals[i].owns = NoAddr) = BLe(len(vals[i].fp), Small(INLINE_CAP))
          /\ vals[i].owns # NoAddr
                => heap[vals[i].owns].st = "live" /\ PtrOf(vals[i].fp) = vals[i].owns
          /\ BLe(len(vals[i].fp), Small(INLINE_CAP))
                = BLe(BLen(Encode(vals[i].src)), Small(INLINE_CAP))
    /\ call.fn = "inline"
          => (call.kind = "panic")
                = BLt(Small(INLINE_CAP), BLen(Encode(call.text)))

\* C8: v == t and t == v agree, for str and for &str, and are true exactly
\* when the text view of v is t byte for byte.
C8_ForeignEq ==
    call.fn = "eq_str"
    => \A k \in 1..4 :
          call.eq[k] = SliceEq(View(call.slot), Encode(call.text))

====
